---------------------------- MODULE Spec2Model ----------------------------
(***************************************************************************)
(* A model of the blind DNS tunnel: the wire codec (tunnel/common.go), the *)
(* client engine (DNSClient: Start, handleConnection, sendChunk,           *)
(* sendQuery, pollForData) and the server engine (DNSServer: getSession,   *)
(* handlePoll, handleDNSRequest, cleanupSessions; Session).                *)
(*                                                                         *)
(* Texts (DNS names, TXT strings) are sequences of one-character strings;  *)
(* byte strings are sequences of integers in 0..255.                       *)
(***************************************************************************)
EXTENDS Integers, Sequences, FiniteSets, TLC

(***************************************************************************)
(* Program constants.                                                      *)
(***************************************************************************)
maxChunkSize == 220
maxLabelSize == 63
maxRetries == 3
maxSafeLabelSize == 40
sessionIDLength == 7
\* the local maxChunkSize of sendChunk, which shadows the package constant
subChunkSize == 100
\* the width of the uplink sequence counter: uint16
SeqMod == 65536
\* the capacity of handleConnection's error channel
ErrChanCap == 2

(***************************************************************************)
(* Generic helpers on sequences.                                           *)
(***************************************************************************)
Min(a, b) == IF a < b THEN a ELSE b

RECURSIVE Flatten(_)
Flatten(ss) == IF ss = << >> THEN << >> ELSE Head(ss) \o Flatten(Tail(ss))

IsPrefix(s, t) == Len(s) <= Len(t) /\ SubSeq(t, 1, Len(s)) = s

\* a is what is left of b when some of its elements are taken out
RECURSIVE IsSubseq(_, _)
IsSubseq(a, b) ==
    IF a = << >> THEN TRUE
    ELSE IF b = << >> THEN FALSE
    ELSE IF Head(a) = Head(b) THEN IsSubseq(Tail(a), Tail(b))
    ELSE IsSubseq(a, Tail(b))

(***************************************************************************)
(* The characters of the wire.                                             *)
(***************************************************************************)
\* dnsBase32Alphabet; also the alphabet of base32.StdEncoding
dnsBase32Alphabet ==
    << "A", "B", "C", "D", "E", "F", "G", "H", "I", "J", "K", "L", "M",
       "N", "O", "P", "Q", "R", "S", "T", "U", "V", "W", "X", "Y", "Z",
       "2", "3", "4", "5", "6", "7" >>

HexDigits ==
    << "0", "1", "2", "3", "4", "5", "6", "7", "8", "9",
       "a", "b", "c", "d", "e", "f" >>

DOT == "."
EMPTY == << "E", "M", "P", "T", "Y" >>
CLOSED == << "C", "L", "O", "S", "E", "D" >>
\* the bytes of the Go strings "EMPTY" and "CLOSED"
EMPTYBytes == << 69, 77, 80, 84, 89 >>
CLOSEDBytes == << 67, 76, 79, 83, 69, 68 >>
defaultTLD == << "e", "d", "u" >>

(***************************************************************************)
(* encoding/base32 as the program configures it: the 32-symbol alphabet,   *)
(* no padding.                                                             *)
(***************************************************************************)
\* the byte at position i of src, or 0 past its end
ByteAt(src, i) == IF i <= Len(src) THEN src[i] ELSE 0

\* the eight 5-bit values of one 5-byte quantum starting at src[p]
Quantum(src, p) ==
    LET s0 == ByteAt(src, p)
        s1 == ByteAt(src, p + 1)
        s2 == ByteAt(src, p + 2)
        s3 == ByteAt(src, p + 3)
        s4 == ByteAt(src, p + 4)
    IN  << s0 \div 8,
           ((s0 * 4) % 32) + (s1 \div 64),
           (s1 \div 2) % 32,
           ((s1 * 16) % 32) + (s2 \div 16),
           ((s2 * 2) % 32) + (s3 \div 128),
           (s3 \div 4) % 32,
           ((s3 * 8) % 32) + (s4 \div 32),
           s4 % 32 >>

\* the number of characters that encode a final group of r bytes (1 <= r <= 5)
QuantumChars(r) == CASE r = 1 -> 2 [] r = 2 -> 4 [] r = 3 -> 5 [] r = 4 -> 7 [] OTHER -> 8

RECURSIVE B32EncodeFrom(_, _)
B32EncodeFrom(src, p) ==
    IF p > Len(src) THEN << >>
    ELSE LET r == Min(5, Len(src) - p + 1)
             q == Quantum(src, p)
         IN  [k \in 1..QuantumChars(r) |-> dnsBase32Alphabet[q[k] + 1]]
                 \o B32EncodeFrom(src, p + 5)

\* dnsBase32.EncodeToString
B32Encode(src) == B32EncodeFrom(src, 1)

\* the decode map: the value of a character of the alphabet
DecodeMap ==
    [ch \in {dnsBase32Alphabet[i] : i \in 1..32} |->
        (CHOOSE i \in 1..32 : dnsBase32Alphabet[i] = ch) - 1]

\* the value of a character, or 255 for one outside the alphabet
DecodeVal(ch) == IF ch \in DOMAIN DecodeMap THEN DecodeMap[ch] ELSE 255

\* the bytes one quantum of dlen characters yields: the decoder's switch on dlen
\* has cases 8, 7, 5, 4 and 2 only, so a final group of 1, 3 or 6 characters
\* yields no byte and no error
QuantumBytes(dlen) ==
    CASE dlen = 8 -> 5 [] dlen = 7 -> 4 [] dlen = 5 -> 3 [] dlen = 4 -> 2
      [] dlen = 2 -> 1 [] OTHER -> 0

DecodeQuantum(s, p) ==
    LET d == [j \in 1..8 |-> IF p + j - 1 <= Len(s) THEN DecodeVal(s[p + j - 1]) ELSE 0]
        all == << ((d[1] * 8) % 256) + (d[2] \div 4),
                  ((d[2] * 64) % 256) + ((d[3] * 2) % 256) + (d[4] \div 16),
                  ((d[4] * 16) % 256) + (d[5] \div 2),
                  ((d[5] * 128) % 256) + ((d[6] * 4) % 256) + (d[7] \div 8),
                  ((d[7] * 32) % 256) + d[8] >>
    IN  SubSeq(all, 1, QuantumBytes(Min(8, Len(s) - p + 1)))

RECURSIVE B32DecodeFrom(_, _)
B32DecodeFrom(s, p) ==
    IF p > Len(s) THEN << >> ELSE DecodeQuantum(s, p) \o B32DecodeFrom(s, p + 8)

\* base32.StdEncoding.WithPadding(base32.NoPadding).DecodeString
B32Decode(s) ==
    IF \E i \in 1..Len(s) : DecodeVal(s[i]) = 255
    THEN [err |-> TRUE, data |-> << >>]
    ELSE [err |-> FALSE, data |-> B32DecodeFrom(s, 1)]

(***************************************************************************)
(* strings.Split, strings.Join, strings.ReplaceAll on texts.               *)
(***************************************************************************)
\* strings.Split(s, "."): the pieces between consecutive dots, empty ones kept
SplitDots(s) ==
    LET dots == {i \in 1..Len(s) : s[i] = DOT}
        n == Cardinality(dots)
        bound(k) == IF k = 0 THEN 0
                    ELSE IF k = n + 1 THEN Len(s) + 1
                    ELSE CHOOSE i \in dots : Cardinality({j \in dots : j < i}) = k - 1
    IN  [k \in 1..(n + 1) |-> SubSeq(s, bound(k - 1) + 1, bound(k) - 1)]

RECURSIVE JoinDots(_)
JoinDots(parts) ==
    IF parts = << >> THEN << >>
    ELSE IF Len(parts) = 1 THEN parts[1]
    ELSE parts[1] \o << DOT >> \o JoinDots(Tail(parts))

\* strings.Join(parts, "")
JoinPlainReversed(parts) == Flatten([i \in 1..Len(parts) |-> parts[Len(parts) + 1 - i]])
JoinPlain(parts) == Flatten(parts)

\* strings.ReplaceAll(s, ".", "")
StripDots(s) == SelectSeq(s, LAMBDA ch : ch # DOT)

\* the pieces of s of at most size characters each
RECURSIVE CutEvery(_, _)
CutEvery(s, size) ==
    IF Len(s) = 0 THEN << >>
    ELSE IF Len(s) <= size THEN << s >>
    ELSE << SubSeq(s, 1, size) >> \o CutEvery(SubSeq(s, size + 1, Len(s)), size)

(***************************************************************************)
(* encodeDNSSafe and decodeDNSSafe.                                        *)
(***************************************************************************)
\* the validation loop of encodeDNSSafe: a label longer than maxLabelSize
\* replaces the result by that label's pieces
RECURSIVE ValidateLabels(_, _)
ValidateLabels(labels, result) ==
    IF labels = << >> THEN result
    ELSE ValidateLabels(Tail(labels),
                        IF Len(Head(labels)) > maxLabelSize
                        THEN JoinDots(CutEvery(Head(labels), maxSafeLabelSize))
                        ELSE result)

\* encodeDNSSafe, were the labels cut at the longest size DNS allows
encodeDNSSafeWide(data) ==
    IF Len(data) = 0 THEN EMPTY
    ELSE LET result == JoinDots(CutEvery(B32Encode(data), maxLabelSize))
         IN  ValidateLabels(SplitDots(result), result)

encodeDNSSafe(data) ==
    IF Len(data) = 0 THEN EMPTY
    ELSE LET result == JoinDots(CutEvery(B32Encode(data), maxSafeLabelSize))
         IN  ValidateLabels(SplitDots(result), result)

decodeDNSSafe(s) ==
    IF s = EMPTY THEN [err |-> FALSE, data |-> << >>]
    ELSE B32Decode(StripDots(s))

\* splitDataIntoChunks
splitDataIntoChunks(data, chunkSize) == CutEvery(data, chunkSize)


(***************************************************************************)
(* Bounds of the model.                                                    *)
(***************************************************************************)
\* local peers that connect to the client's listener (SpecStart)
MaxConns == 2
\* reads that return data, per local connection, in one run of the system
MaxReads == 1
\* chunks the backend (or the peer of SpecClient) sends down
MaxDown == 2
\* faults in one run of the system: exchanges that end in an i/o timeout or
\* in another error, dials of the backend that fail
MaxFaults == 1
\* backend connections the server dials successfully
MaxDials == 2
\* steps of the reaper's ticker
MaxTicks == 1
\* payloads the server writes to one backend connection in SpecServer
MaxWrites == 1
\* the longest payload of SpecCodec drawn from every byte of CodecBytes
MaxShort == 3
\* chunks the backend sends in SpecServer
MaxSrvDown == 1
\* passes of cleanupSessions in SpecReaper
MaxPasses == 2
\* goroutines handling queries at once in SpecRace, and the queries each handles
MaxHandlers == 2
MaxQueries == 2
\* passes of cleanupSessions in SpecRace
MaxSweeps == 1
\* the data queries of one connection that SpecSeq counts
MaxCount == 4
\* the session idle threshold, 5 minutes, in ticks of the reaper's 30 seconds
IdleTicks == 10

Conns == 1..MaxConns
Kinds == {"rd", "pl"}
Tasks == Conns \X Kinds

(***************************************************************************)
(* Inputs: what the local peers and the backend send.                      *)
(***************************************************************************)
Pattern(n, a) == [k \in 1..n |-> (a + 7 * k) % 256]

\* the results of a read on the local socket: "HELLO\n", three bytes whose
\* base32 text is the word EMPTY, and one byte more than a subchunk holds
UpIds == 1..3
UpData(id) ==
    CASE id = 1 -> << 72, 69, 76, 76, 79, 10 >>
      [] id = 2 -> << 35, 31, 60 >>
      [] OTHER -> Pattern(subChunkSize + 1, 3)

\* the results of a read on the backend socket: "hi\n", the bytes of the
\* words EMPTY and CLOSED, three bytes whose base32 text is the word EMPTY,
\* and one byte more than one label of maxSafeLabelSize characters holds
DownIds == 1..5
DownData(id) ==
    CASE id = 1 -> << 104, 105, 10 >>
      [] id = 2 -> EMPTYBytes
      [] id = 3 -> CLOSEDBytes
      [] id = 4 -> << 35, 31, 60 >>
      [] OTHER -> Pattern(((maxSafeLabelSize * 5) \div 8) + 1, 9)

(***************************************************************************)
(* Names on the wire.                                                      *)
(***************************************************************************)
\* generateSessionID: the k-th draw; draws are taken to be pairwise distinct
generateSessionID(k) == << "S", "I", "D", "A", "A", "A", dnsBase32Alphabet[k] >>

\* fmt's %04x of a uint16
Hex4(x) ==
    << HexDigits[((x \div 4096) % 16) + 1], HexDigits[((x \div 256) % 16) + 1],
       HexDigits[((x \div 16) % 16) + 1], HexDigits[(x % 16) + 1] >>

\* sequence+uint16(i) in sendChunk
SeqField(sequence, i) == (sequence + i) % SeqMod

\* sequence++ in the uplink reader
NextSequence(sequence) == (sequence + 1) % SeqMod

\* the fqdn sendChunk composes for one subchunk, of its encodedData
DataName(encodedData, sequence, i, sid) ==
    encodedData \o << DOT >> \o Hex4(SeqField(sequence, i))
        \o << DOT >> \o sid \o << DOT >> \o defaultTLD

\* the fqdn pollForData composes
PollName(sid) ==
    << "A", "A", DOT, "f", "f", "f", "f", DOT >> \o sid \o << DOT >> \o defaultTLD

\* dns.Fqdn
Fqdn(name) ==
    IF Len(name) > 0 /\ name[Len(name)] = DOT THEN name ELSE name \o << DOT >>

\* strings.TrimSuffix(name, ".")
TrimDot(name) ==
    IF Len(name) > 0 /\ name[Len(name)] = DOT THEN SubSeq(name, 1, Len(name) - 1)
    ELSE name

\* the parsing of the question name, were three parts enough
ParseNameThree(qname) ==
    LET parts == SplitDots(TrimDot(qname))
        n == Len(parts)
    IN  IF n < 3
        THEN [ok |-> FALSE, tld |-> << >>, sessionID |-> << >>, sequence |-> << >>,
              encodedData |-> << >>]
        ELSE [ok |-> TRUE, tld |-> parts[n], sessionID |-> parts[n - 1],
              sequence |-> parts[n - 2],
              encodedData |-> JoinDots(SubSeq(parts, 1, n - 3))]

\* the parsing of the question name in handleDNSRequest
ParseName(qname) ==
    LET parts == SplitDots(TrimDot(qname))
        n == Len(parts)
    IN  IF n < 4
        THEN [ok |-> FALSE, tld |-> << >>, sessionID |-> << >>, sequence |-> << >>,
              encodedData |-> << >>]
        ELSE [ok |-> TRUE, tld |-> parts[n], sessionID |-> parts[n - 1],
              sequence |-> parts[n - 2],
              encodedData |-> JoinDots(SubSeq(parts, 1, n - 3))]

\* the mode switch, were the sequence field 0001 a poll as well
IsPollOrOne(sequence) == sequence \in {<< "f", "f", "f", "f" >>, << "0", "0", "0", "1" >>}

\* isPoll := sequence == "ffff"
IsPoll(sequence) == sequence = << "f", "f", "f", "f" >>

\* the subchunks sendChunk makes of the read whose result is UpData(id), and
\* the encodedData of each
SubChunks == [id \in UpIds |-> splitDataIntoChunks(UpData(id), subChunkSize)]
EncodedSubChunks ==
    [id \in UpIds |-> [i \in 1..Len(SubChunks[id]) |-> encodeDNSSafe(SubChunks[id][i])]]


(***************************************************************************)
(* The state.                                                              *)
(***************************************************************************)
VARIABLES
    \* SpecCodec: a payload, its encoding, the decoding of that
    cIn, cEnc, cDec, cPh,
    \* SpecSeq: the uplink reader's counter alone: sequence, the number of
    \* subchunks of the read being sent (0 between reads), the index of the
    \* subchunk sent last, the data queries sent so far, the sequence field of
    \* the one sent last
    uSeq, uM, uI, uK, uField,
    \* DNSClient.sessionID (the number of the draw) and the Start loop
    sessionID, startPc, backlog, nAccepted,
    \* handleConnection, per local connection: the waiting function, the
    \* local socket, the error channel
    mainPc, lsock, errChan,
    \* the two goroutines of a connection, per task: where it is ("query":
    \* in an exchange of sendQuery), and its call of sendQuery (the fqdn, the
    \* attempt)
    pc, fqdn, attempt,
    \* the uplink reader's locals: sequence, the read in buffer, the index of
    \* the subchunk being sent; and the reads done so far
    sequence, buf, idx, readsLeft,
    \* the network: timed-out queries still under way, faults still to come
    stale, faultsLeft,
    \* DNSServer.sessions, the backend connections dialed, chunks sent down,
    \* ticks of the reaper
    sessions, bk, nDown, nTicks,
    \* history, client side
    acceptSid, sidUsed, dataSeqs, upReads, localWritten, outs,
    \* what the call of sendQuery that returned in the last step returned
    returned,
    \* history, server side
    srvReads, closedSids, lostSids, reapedSids, lastReq,
    \* SpecRace: the Session objects the server has made, the entry of
    \* DNSServer.sessions for the one session id, the holder of DNSServer.mu,
    \* and the goroutines that handle queries
    heap, tbl, tblMu, hnd,
    \* SpecRace: the goroutine of cleanupSessions
    reaper

codecVars == << cIn, cEnc, cDec, cPh >>
seqVars == << uSeq, uM, uI, uK, uField >>
startVars == << sessionID, startPc, backlog, nAccepted >>
connVars == << mainPc, lsock, errChan >>
taskVars == << pc, fqdn, attempt >>
rdVars == << sequence, buf, idx, readsLeft >>
netVars == << stale, faultsLeft >>
srvVars == << sessions, bk, nDown, nTicks >>
histC == << acceptSid, sidUsed, dataSeqs, upReads, localWritten, outs >>
histS == << srvReads, closedSids, lostSids, reapedSids, lastReq >>
clientVars == << startVars, connVars, taskVars, rdVars, histC >>
raceVars == << heap, tbl, tblMu, hnd, reaper >>
vars == << codecVars, seqVars, clientVars, netVars, srvVars, histS, returned, raceVars >>

Handlers == 1..MaxHandlers
\* a goroutine of the server between two queries
IdleHandler == [pc |-> "idle", poll |-> FALSE, sess |-> 0, conn |-> 0, left |-> MaxQueries,
                had |-> 0, dials0 |-> 0, res |-> "NONE"]

\* cleanupSessions between two ticks, and its name as a holder of mutexes
ReaperId == MaxHandlers + 1
IdleReaper == [pc |-> "idle", left |-> MaxSweeps]

NoResp == [rcode |-> "NONE", answer |-> << >>]
NoDec == [err |-> FALSE, data |-> << >>]
NoRet == [task |-> << >>, outs |-> << >>, result |-> "none"]
\* no entry in the table, no connection
NoSession == [conn |-> 0, closed |-> FALSE, age |-> -1]
NoBackend == [state |-> "none", srvClosed |-> FALSE, written |-> << >>, pending |-> << >>]
NoReq == [name |-> << >>, reply |-> NoResp, wasClosed |-> FALSE, wasLost |-> FALSE,
          dialed |-> FALSE, wrote |-> FALSE, wasReaped |-> FALSE, hadEntry |-> FALSE,
          connBefore |-> 0, ageBefore |-> 0, ticks |-> 0, same |-> TRUE,
          used |-> 0, delta |-> << >>, read |-> << >>, ended |-> FALSE,
          readFailed |-> FALSE, kind |-> "none", dials |-> 0, sessAfter |-> NoSession,
          connAfter |-> NoBackend]

\* the bytes the uplink reader of connection c has read so far
UpBytes(c) == Flatten([i \in 1..Len(upReads[c]) |-> UpData(upReads[c][i])])

(***************************************************************************)
(* Initial states.                                                         *)
(***************************************************************************)
InitCodecIdle == cIn = << >> /\ cEnc = << >> /\ cDec = NoDec /\ cPh = "idle"
InitSeqIdle == uSeq = 0 /\ uM = 0 /\ uI = 0 /\ uK = 0 /\ uField = << >>

\* NewDNSClient draws the first session id; no connection is accepted yet.
\* NewDNSServer: an empty session table.
InitSystem(peers, faults, reads) ==
    /\ sessionID = 1 /\ startPc = "reset" /\ backlog = peers /\ nAccepted = 0
    /\ mainPc = [c \in Conns |-> "none"]
    /\ lsock = [c \in Conns |-> "none"]
    /\ errChan = [c \in Conns |-> 0]
    /\ pc = [t \in Tasks |-> "none"]
    /\ fqdn = [t \in Tasks |-> << >>]
    /\ attempt = [t \in Tasks |-> 0]
    /\ sequence = [c \in Conns |-> 0]
    /\ buf = [c \in Conns |-> 0]
    /\ idx = [c \in Conns |-> 0]
    /\ readsLeft = [c \in Conns |-> reads]
    /\ stale = {} /\ faultsLeft = faults
    /\ sessions = << >> /\ bk = << >> /\ nDown = 0 /\ nTicks = 0
    /\ acceptSid = [c \in Conns |-> << >>]
    /\ sidUsed = [c \in Conns |-> {}]
    /\ dataSeqs = [c \in Conns |-> << >>]
    /\ upReads = [c \in Conns |-> << >>]
    /\ localWritten = [c \in Conns |-> << >>]
    /\ outs = [t \in Tasks |-> << >>]
    /\ returned = NoRet
    /\ srvReads = [c \in Conns |-> << >>]
    /\ closedSids = {} /\ lostSids = {} /\ reapedSids = {} /\ lastReq = NoReq
    /\ heap = << >> /\ tbl = 0 /\ tblMu = 0
    /\ hnd = [t \in Handlers |-> IdleHandler]
    /\ reaper = IdleReaper

(***************************************************************************)
(* DNSClient.Start.                                                        *)
(***************************************************************************)
\* resetState, at the top of each turn of the accept loop
StartReset ==
    /\ startPc = "reset"
    /\ sessionID' = sessionID + 1
    /\ startPc' = "accept"
    /\ UNCHANGED << backlog, nAccepted, connVars, taskVars, rdVars, histC,
                    netVars, srvVars, histS, codecVars, raceVars, seqVars >>
    /\ returned' = NoRet

\* listener.Accept returns a connection and handleConnection is started on
\* it, with its two goroutines
StartAccept ==
    /\ startPc = "accept"
    /\ backlog > 0
    /\ LET c == nAccepted + 1 IN
        /\ nAccepted' = c
        /\ mainPc' = [mainPc EXCEPT ![c] = "wait"]
        /\ lsock' = [lsock EXCEPT ![c] = "open"]
        /\ pc' = [pc EXCEPT ![<< c, "rd" >>] = "select", ![<< c, "pl" >>] = "select"]
        /\ acceptSid' = [acceptSid EXCEPT ![c] = generateSessionID(sessionID)]
    /\ backlog' = backlog - 1
    /\ startPc' = "reset"
    /\ UNCHANGED << sessionID, errChan, fqdn, attempt, rdVars,
                    sidUsed, dataSeqs, upReads, localWritten, outs,
                    netVars, srvVars, histS, codecVars, raceVars, seqVars >>
    /\ returned' = NoRet

(***************************************************************************)
(* handleConnection.                                                       *)
(***************************************************************************)
\* done is closed, and the connection with it, when handleConnection returns
DoneClosed(c) == mainPc[c] = "ret"

\* errChan <- err: the value goes into the buffer when there is room, and
\* the sender waits otherwise
SendBlocksUnbuffered(c) == errChan[c] >= 0
SendBlocks(c) == errChan[c] >= ErrChanCap

\* the select at the end of handleConnection receives an error and the
\* function returns: close(done), conn.Close()
MainRecv(c) ==
    /\ mainPc[c] = "wait"
    /\ errChan[c] > 0 \/ \E k \in Kinds : pc[<< c, k >>] = "blocked"
    /\ mainPc' = [mainPc EXCEPT ![c] = "ret"]
    /\ lsock' = [lsock EXCEPT ![c] = "closed"]
    /\ IF errChan[c] > 0
       THEN /\ errChan' = [errChan EXCEPT ![c] = @ - 1]
            /\ pc' = pc
       ELSE /\ errChan' = errChan
            /\ pc' = [pc EXCEPT ![<< c, CHOOSE k \in Kinds : pc[<< c, k >>] = "blocked" >>] = "done"]
    /\ UNCHANGED << startVars, fqdn, attempt, rdVars, histC,
                    netVars, srvVars, histS, codecVars, raceVars, seqVars >>
    /\ returned' = NoRet

\* the local peer closes its end: reads on the local socket meet end-of-stream
LocalClose(c) ==
    /\ lsock[c] = "open"
    /\ lsock' = [lsock EXCEPT ![c] = "peerClosed"]
    /\ UNCHANGED << startVars, mainPc, errChan, taskVars, rdVars, histC,
                    netVars, srvVars, histS, codecVars, raceVars, seqVars >>
    /\ returned' = NoRet

\* the uplink reader's select: done closed, or default
RdSelect(c) ==
    /\ pc[<< c, "rd" >>] = "select"
    /\ pc' = [pc EXCEPT ![<< c, "rd" >>] = IF DoneClosed(c) THEN "done" ELSE "read"]
    /\ UNCHANGED << startVars, connVars, fqdn, attempt, rdVars, acceptSid, sidUsed,
                    dataSeqs, upReads, localWritten, outs, netVars, srvVars, histS, codecVars, raceVars, seqVars >>
    /\ returned' = NoRet

\* conn.Read returns the n > 0 bytes UpData(id); sendChunk splits them,
\* composes the name of the first subchunk and calls sendQuery, whose first
\* exchange starts
RdReadData(c, id) ==
    LET t == << c, "rd" >>
        name == DataName(EncodedSubChunks[id][1], sequence[c], 0,
                         generateSessionID(sessionID))
        sent == ParseName(Fqdn(name))
    IN  /\ pc[t] = "read"
        /\ lsock[c] = "open"
        /\ readsLeft[c] > 0
        /\ readsLeft' = [readsLeft EXCEPT ![c] = @ - 1]
        /\ buf' = [buf EXCEPT ![c] = id]
        /\ idx' = [idx EXCEPT ![c] = 0]
        /\ pc' = [pc EXCEPT ![t] = "query"]
        /\ fqdn' = [fqdn EXCEPT ![t] = name]
        /\ attempt' = [attempt EXCEPT ![t] = 1]
        /\ outs' = [outs EXCEPT ![t] = << >>]
        /\ upReads' = [upReads EXCEPT ![c] = Append(@, id)]
        /\ dataSeqs' = [dataSeqs EXCEPT ![c] = Append(@, sent.sequence)]
        /\ sidUsed' = [sidUsed EXCEPT ![c] = @ \cup {sent.sessionID}]
        /\ UNCHANGED << startVars, connVars, sequence, acceptSid,
                        localWritten, netVars, srvVars, histS, codecVars, raceVars,
                        seqVars >>
        /\ returned' = NoRet

\* conn.Read returns an error (end-of-stream, or the connection was closed
\* under it): the reader sends it on errChan and returns
RdReadErr(c) ==
    LET t == << c, "rd" >>
    IN  /\ pc[t] = "read"
        /\ lsock[c] \in {"peerClosed", "closed"}
        /\ pc' = [pc EXCEPT ![t] = IF SendBlocks(c) THEN "blocked" ELSE "done"]
        /\ errChan' = [errChan EXCEPT ![c] = IF SendBlocks(c) THEN @ ELSE @ + 1]
        /\ UNCHANGED << startVars, mainPc, lsock, fqdn, attempt,
                        rdVars, histC, netVars, srvVars, histS, codecVars, raceVars,
                        seqVars >>
        /\ returned' = NoRet

\* the poller's select: done closed, or default, where pollForData composes
\* the poll name and calls sendQuery, whose first exchange starts
PlSelect(c) ==
    LET t == << c, "pl" >>
        name == PollName(generateSessionID(sessionID))
    IN  /\ pc[t] = "select"
        /\ IF DoneClosed(c)
           THEN /\ pc' = [pc EXCEPT ![t] = "done"]
                /\ UNCHANGED << fqdn, attempt, outs, sidUsed >>
           ELSE /\ pc' = [pc EXCEPT ![t] = "query"]
                /\ fqdn' = [fqdn EXCEPT ![t] = name]
                /\ attempt' = [attempt EXCEPT ![t] = 1]
                /\ outs' = [outs EXCEPT ![t] = << >>]
                /\ sidUsed' = [sidUsed EXCEPT ![c] = @ \cup {ParseName(Fqdn(name)).sessionID}]
        /\ UNCHANGED << startVars, connVars, rdVars, acceptSid, dataSeqs,
                        upReads, localWritten, netVars, srvVars, histS,
                        codecVars, raceVars, seqVars >>
        /\ returned' = NoRet


(***************************************************************************)
(* sendQuery, and what its caller does with what it returns.               *)
(***************************************************************************)
NilRet == [err |-> "", data |-> << >>]
ErrRet(kind) == [err |-> kind, data |-> << >>]

\* what sendQuery makes of a response whose RCODE is success
ParseAnswer(r) ==
    IF Len(r.answer) > 0
    THEN LET responseText == JoinPlain(r.answer[1])
         IN  IF responseText = EMPTY THEN NilRet
             ELSE LET d == decodeDNSSafe(responseText)
                  IN  IF d.err THEN ErrRet("decode") ELSE [err |-> "", data |-> d.data]
    ELSE NilRet

\* what the caller does once sendQuery has returned rv.
\* The uplink reader, in sendChunk: an error ends it ("exit"); otherwise the
\* next subchunk is sent ("next"), or sendChunk returns and the reader counts
\* ("finished").
\* The poller: an error ends it; pollForData turns an empty response and the
\* bytes EMPTY into nil ("idle"); the bytes CLOSED end the poller; anything
\* else is written to the local socket ("written"), which fails on a closed
\* socket.
Kont(t, rv) ==
    LET c == t[1]
    IN  IF t[2] = "rd"
        THEN IF rv.err # "" THEN "exit"
             ELSE IF idx[c] + 1 < Len(SubChunks[buf[c]]) THEN "next"
             ELSE "finished"
        ELSE IF rv.err # "" THEN "exit"
             ELSE IF Len(rv.data) = 0 \/ rv.data = EMPTYBytes THEN "idle"
             ELSE IF rv.data = CLOSEDBytes THEN "exit"
             ELSE IF lsock[c] = "closed" THEN "exit"
             ELSE "written"

\* whether a failed exchange is followed by another: the loop of sendQuery
\* runs for attempt := 1; attempt <= maxRetries
RetryAllowedOnceMore(a) == a <= maxRetries
RetryAllowed(a) == a < maxRetries

\* which outcomes of an exchange sendQuery answers with sleep and continue
Retryable(out) == out \in {"timeout", "rcode"}

\* one exchange of task t's sendQuery has ended with outcome out ("timeout",
\* "rcode", "other" or "success"); rv is what sendQuery returns if it
\* returns now
Outcome(t, out, rv) ==
    \E rv2 \in {IF Retryable(out) THEN ErrRet("max retries exceeded") ELSE rv} :
    \E k \in {IF Retryable(out) /\ RetryAllowed(attempt[t]) THEN "retry"
              ELSE Kont(t, rv2)} :
    LET c == t[1]
        nextName == DataName(EncodedSubChunks[buf[c]][idx[c] + 2], sequence[c],
                             idx[c] + 1, generateSessionID(sessionID))
        sent == ParseName(Fqdn(nextName))
    IN  /\ pc' = [pc EXCEPT ![t] =
                CASE k \in {"retry", "next"} -> "query"
                  [] k = "exit" -> IF SendBlocks(c) THEN "blocked" ELSE "done"
                  [] OTHER -> "select"]
        /\ errChan' = [errChan EXCEPT ![c] =
                IF k = "exit" /\ ~SendBlocks(c) THEN @ + 1 ELSE @]
        /\ attempt' = [attempt EXCEPT ![t] =
                CASE k = "retry" -> @ + 1 [] k = "next" -> 1 [] OTHER -> 0]
        /\ fqdn' = [fqdn EXCEPT ![t] =
                CASE k = "retry" -> @ [] k = "next" -> nextName [] OTHER -> << >>]
        /\ idx' = [idx EXCEPT ![c] =
                IF t[2] = "pl" \/ k = "retry" THEN @ ELSE IF k = "next" THEN @ + 1 ELSE 0]
        /\ buf' = [buf EXCEPT ![c] =
                IF t[2] = "rd" /\ k \in {"exit", "finished"} THEN 0 ELSE @]
        /\ sequence' = [sequence EXCEPT ![c] =
                IF k = "finished" THEN NextSequence(@) ELSE @]
        /\ localWritten' = [localWritten EXCEPT ![c] =
                IF k = "written" THEN Append(@, rv2.data) ELSE @]
        /\ dataSeqs' = [dataSeqs EXCEPT ![c] =
                IF k = "next" THEN Append(@, sent.sequence) ELSE @]
        /\ sidUsed' = [sidUsed EXCEPT ![c] =
                IF k = "next" THEN @ \cup {sent.sessionID} ELSE @]
        /\ outs' = [outs EXCEPT ![t] = IF k = "retry" THEN Append(@, out) ELSE << >>]
        /\ returned' =
                IF k = "retry" THEN NoRet
                ELSE [task |-> t, outs |-> Append(outs[t], out),
                      result |-> IF rv2.err = "" THEN "ok" ELSE rv2.err]
        /\ UNCHANGED << startVars, mainPc, lsock, readsLeft, acceptSid, upReads >>

\* c.dnsClient.Exchange ends in an i/o timeout. The query was lost, or it
\* is still under way (keep) and the server may yet handle it, with a
\* response that reaches nobody.
SqTimeout(t, keep) ==
    /\ pc[t] = "query"
    /\ stale' = IF keep
                THEN stale \cup {[name |-> Fqdn(fqdn[t]), c |-> t[1]]}
                ELSE stale
    /\ Outcome(t, "timeout", NilRet)
    /\ UNCHANGED << srvVars, histS, codecVars, raceVars, seqVars >>

\* c.dnsClient.Exchange ends in another error: sendQuery returns it at once
SqOtherErr(t) ==
    /\ pc[t] = "query"
    /\ stale' = stale
    /\ Outcome(t, "other", ErrRet("other"))
    /\ UNCHANGED << srvVars, histS, codecVars, raceVars, seqVars >>

\* one of the faults of a run of the system
Fault == faultsLeft > 0 /\ faultsLeft' = faultsLeft - 1

\* c.dnsClient.Exchange returns the response r
SqRecv(t, r) ==
    Outcome(t, IF r.rcode # "NOERROR" THEN "rcode" ELSE "success", ParseAnswer(r))


(***************************************************************************)
(* The server: Session, getSession, handlePoll, handleDNSRequest.          *)
(* A session is [conn, closed, age]: conn is the number of the backend     *)
(* connection, 0 for nil; age counts the reaper's ticks since lastActive.  *)
(* A backend connection is [state, srvClosed, written, pending]: what the  *)
(* backend did to it ("open", "eof", "reset"), whether the server closed   *)
(* it, the bytes the server wrote, the chunks waiting to be read.          *)
(***************************************************************************)
NewBackend == [state |-> "open", srvClosed |-> FALSE, written |-> << >>, pending |-> << >>]
NewSession(b) == [conn |-> b, closed |-> FALSE, age |-> 0]

\* getSession: an absent entry, or one whose conn is nil, is replaced by a
\* new Session that reconnect has dialed; a failed dial leaves the table alone
getSession(S, B, sid, dialOk) ==
    IF sid \in DOMAIN S /\ S[sid].conn # 0
    THEN [ok |-> TRUE, sessions |-> S, bk |-> B]
    ELSE IF ~dialOk
    THEN [ok |-> FALSE, sessions |-> S, bk |-> B]
    ELSE [ok |-> TRUE,
          sessions |-> [x \in DOMAIN S \cup {sid} |->
                            IF x = sid THEN NewSession(Len(B) + 1) ELSE S[x]],
          bk |-> Append(B, NewBackend)]

\* Session.Close
CloseSession(sess) == [sess EXCEPT !.closed = TRUE, !.conn = 0]
\* the closing of a connection, were it to leave the connection open
CloseConnNot(B, b) == B
CloseConn(B, b) == IF b = 0 THEN B ELSE [B EXCEPT ![b].srvClosed = TRUE]

\* handlePoll on the session of sid: the response bytes and what became of
\* the session and its connection. read holds the bytes read from the backend.
handlePoll(S, B, sid) ==
    LET sess == S[sid]
        b == sess.conn
        out == [sessions |-> S, bk |-> B, response |-> << >>, read |-> << >>,
                ended |-> FALSE, failed |-> FALSE]
    IN  IF sess.closed
        THEN [out EXCEPT !.response = CLOSEDBytes]
        ELSE IF B[b].pending # << >>
        THEN [out EXCEPT !.bk = [B EXCEPT ![b].pending = Tail(@)],
                         !.response = DownData(Head(B[b].pending)),
                         !.read = DownData(Head(B[b].pending))]
        ELSE IF B[b].state \in {"eof", "reset"}
        THEN [out EXCEPT !.sessions = [S EXCEPT ![sid] = CloseSession(@)],
                         !.bk = CloseConn(B, b),
                         !.response = CLOSEDBytes, !.ended = TRUE]
        ELSE IF B[b].state = "ioerr"
        THEN [out EXCEPT !.failed = TRUE]
        ELSE [out EXCEPT !.response = EMPTYBytes]

\* Session.Write, were a failed write to leave the connection in its slot
SessionWriteKeepsConn(S, B, sid, data) ==
    LET sess == S[sid]
        b == sess.conn
    IN  IF b = 0
        THEN [ok |-> FALSE, sessions |-> S, bk |-> B]
        ELSE IF B[b].state \in {"reset", "ioerr"}
        THEN [ok |-> FALSE, sessions |-> S, bk |-> B]
        ELSE [ok |-> TRUE, sessions |-> [S EXCEPT ![sid].age = 0],
              bk |-> [B EXCEPT ![b].written = @ \o data]]

\* Session.Write of data on the session of sid
SessionWrite(S, B, sid, data) ==
    LET sess == S[sid]
        b == sess.conn
    IN  IF b = 0
        THEN [ok |-> FALSE, sessions |-> S, bk |-> B]
        ELSE IF B[b].state \in {"reset", "ioerr"}
        THEN [ok |-> FALSE, sessions |-> [S EXCEPT ![sid].conn = 0], bk |-> CloseConn(B, b)]
        ELSE [ok |-> TRUE, sessions |-> [S EXCEPT ![sid].age = 0],
              bk |-> [B EXCEPT ![b].written = @ \o data]]

Reply(rcode, txt) == [rcode |-> rcode, answer |-> txt]

\* handleDNSRequest on the question name qname, in the table S with the
\* backend connections B: the reply and the new table and connections
handleDNSRequest(qname, S, B, dialOk) ==
    LET p == ParseName(qname)
        none == [sessions |-> S, bk |-> B, read |-> << >>, ended |-> FALSE,
                 readFailed |-> FALSE, writeFailed |-> FALSE, sid |-> p.sessionID]
    IN  IF ~p.ok
        THEN [none EXCEPT !.sid = << >>] @@ [reply |-> Reply("FORMERR", << >>), kind |-> "bad"]
        ELSE LET g == getSession(S, B, p.sessionID, dialOk)
             IN  IF ~g.ok
                 THEN none @@ [reply |-> Reply("SERVFAIL", << >>),
                               kind |-> IF IsPoll(p.sequence) THEN "poll" ELSE "data"]
                 ELSE IF IsPoll(p.sequence)
                 THEN LET h == handlePoll(g.sessions, g.bk, p.sessionID)
                      IN  [sessions |-> h.sessions, bk |-> h.bk, read |-> h.read,
                           ended |-> h.ended, readFailed |-> h.failed,
                           writeFailed |-> FALSE,
                           sid |-> p.sessionID, kind |-> "poll",
                           reply |-> IF h.failed THEN Reply("SERVFAIL", << >>)
                                     ELSE IF Len(h.response) = 0
                                     THEN Reply("NOERROR", << << EMPTY >> >>)
                                     ELSE Reply("NOERROR",
                                                << SplitDots(encodeDNSSafe(h.response)) >>)]
                 ELSE LET d == decodeDNSSafe(p.encodedData)
                          w == SessionWrite(g.sessions, g.bk, p.sessionID, d.data)
                      IN  IF d.err
                          THEN [sessions |-> g.sessions, bk |-> g.bk, read |-> << >>,
                                ended |-> FALSE, readFailed |-> FALSE, writeFailed |-> FALSE,
                                sid |-> p.sessionID, kind |-> "data",
                                reply |-> Reply("FORMERR", << >>)]
                          ELSE IF Len(d.data) = 0
                          THEN [sessions |-> g.sessions, bk |-> g.bk, read |-> << >>,
                                ended |-> FALSE, readFailed |-> FALSE, writeFailed |-> FALSE,
                                sid |-> p.sessionID, kind |-> "data",
                                reply |-> Reply("NOERROR", << << EMPTY >> >>)]
                          ELSE [sessions |-> w.sessions, bk |-> w.bk, read |-> << >>,
                                ended |-> FALSE, readFailed |-> FALSE, writeFailed |-> ~w.ok,
                                sid |-> p.sessionID, kind |-> "data",
                                reply |-> IF w.ok THEN Reply("NOERROR", << << EMPTY >> >>)
                                          ELSE Reply("SERVFAIL", << >>)]

\* the history the server side keeps of one handled request of connection c
Observe(h, c) ==
    /\ srvReads' = [srvReads EXCEPT ![c] = IF h.read # << >> THEN Append(@, h.read) ELSE @]
    /\ closedSids' = IF h.ended THEN closedSids \cup {h.sid} ELSE closedSids
    /\ lostSids' = IF h.ended \/ h.writeFailed THEN lostSids \cup {h.sid} ELSE lostSids
    /\ reapedSids' = reapedSids \ DOMAIN h.sessions

\* whether handling qname makes getSession dial
NeedsDial(qname, S) ==
    LET p == ParseName(qname)
    IN  p.ok /\ ~(p.sessionID \in DOMAIN S /\ S[p.sessionID].conn # 0)

\* a dial that is made may fail while faults are left
DialChoice(qname, dialOk) ==
    /\ dialOk \/ (NeedsDial(qname, sessions) /\ faultsLeft > 0)
    /\ faultsLeft' = IF dialOk THEN faultsLeft ELSE faultsLeft - 1

\* the server handles the query of task t's exchange and replies, and the
\* exchange returns the response
SrvHandle(t, dialOk) ==
    /\ pc[t] = "query"
    /\ DialChoice(Fqdn(fqdn[t]), dialOk)
    /\ \E h \in {handleDNSRequest(Fqdn(fqdn[t]), sessions, bk, dialOk)} :
        /\ Len(h.bk) <= MaxDials
        /\ sessions' = h.sessions
        /\ bk' = h.bk
        /\ Observe(h, t[1])
        /\ SqRecv(t, h.reply)
    /\ UNCHANGED << stale, nDown, nTicks, lastReq, codecVars, raceVars, seqVars >>

\* the server handles a query whose exchange has timed out at the client:
\* its reply reaches nobody
SrvHandleStale(q, dialOk) ==
    /\ q \in stale
    /\ DialChoice(q.name, dialOk)
    /\ \E h \in {handleDNSRequest(q.name, sessions, bk, dialOk)} :
        /\ Len(h.bk) <= MaxDials
        /\ sessions' = h.sessions
        /\ bk' = h.bk
        /\ Observe(h, q.c)
    /\ stale' = stale \ {q}
    /\ UNCHANGED << clientVars, nDown, nTicks, lastReq, codecVars, raceVars, seqVars >>
    /\ returned' = NoRet

(***************************************************************************)
(* The backend, and the reaper.                                            *)
(***************************************************************************)
Live(b) == b \in 1..Len(bk) /\ bk[b].state = "open" /\ ~bk[b].srvClosed

\* the backend writes the chunk DownData(id) to connection b
BackendSend(b, id) ==
    /\ Live(b)
    /\ nDown < MaxDown
    /\ nDown' = nDown + 1
    /\ bk' = [bk EXCEPT ![b].pending = Append(@, id)]
    /\ UNCHANGED << clientVars, netVars, sessions, nTicks, histS, codecVars, raceVars, seqVars >>
    /\ returned' = NoRet

\* the backend closes connection b: reads meet end-of-stream once the
\* pending chunks are read
BackendClose(b) ==
    /\ Live(b)
    /\ bk' = [bk EXCEPT ![b].state = "eof"]
    /\ UNCHANGED << clientVars, netVars, sessions, nDown, nTicks, histS, codecVars, raceVars,
                    seqVars >>
    /\ returned' = NoRet

\* the backend resets connection b: reads and writes fail with
\* "connection reset"
BackendReset(b) ==
    /\ Live(b)
    /\ bk' = [bk EXCEPT ![b].state = "reset", ![b].pending = << >>]
    /\ UNCHANGED << clientVars, netVars, sessions, nDown, nTicks, histS, codecVars, raceVars,
                    seqVars >>
    /\ returned' = NoRet

\* connection b breaks in another way: reads and writes on it fail with an
\* error that is neither a timeout, nor end-of-stream, nor "connection reset"
BackendFail(b) ==
    /\ Live(b)
    /\ bk' = [bk EXCEPT ![b].state = "ioerr", ![b].pending = << >>]
    /\ UNCHANGED << clientVars, netVars, sessions, nDown, nTicks, histS, codecVars, raceVars,
                    seqVars >>
    /\ returned' = NoRet

\* whether a pass of cleanupSessions removes the entry sess
EvictableClosedOnly(sess) == sess.closed
EvictableIdleOnly(sess) == sess.age > IdleTicks
Evictable(sess) == sess.closed \/ sess.age > IdleTicks

\* cleanupSessions: d ticks of the ticker go by with nothing else happening,
\* and the pass removes the entries that are closed or idle for more than
\* IdleTicks, closing their connections
ReaperPass(d) ==
    LET aged == [x \in DOMAIN sessions |->
                    [sessions[x] EXCEPT !.age = Min(@ + d, IdleTicks + 1)]]
        evict == {x \in DOMAIN sessions : Evictable(aged[x])}
    IN  /\ sessions' = [x \in DOMAIN sessions \ evict |-> aged[x]]
        /\ bk' = [b \in 1..Len(bk) |->
                    IF \E x \in evict : sessions[x].conn = b
                    THEN [bk[b] EXCEPT !.srvClosed = TRUE] ELSE bk[b]]
        /\ reapedSids' = reapedSids \cup {x \in evict : ~aged[x].closed}
        /\ closedSids' = {}
        /\ lostSids' = {}
        /\ UNCHANGED << clientVars, netVars, nDown, srvReads, lastReq, codecVars, raceVars,
                        seqVars >>
        /\ returned' = NoRet

\* a pass in the system with one local connection
ReaperTick(d) ==
    /\ nTicks < MaxTicks
    /\ nTicks' = nTicks + 1
    /\ ReaperPass(d)

(***************************************************************************)
(* The system with one local connection: client, network, server, backend. *)
(* SpecUplink: the local peer sends and the backend is silent.             *)
(* SpecDownlink: the backend sends and the local peer is silent.           *)
(***************************************************************************)
Init == InitCodecIdle /\ InitSeqIdle /\ InitSystem(1, MaxFaults, MaxReads)

\* the steps of the client that involve neither the network nor a read of data
ClientNext ==
    \/ StartReset
    \/ StartAccept
    \/ \E c \in Conns : MainRecv(c)
    \/ \E c \in Conns : LocalClose(c)
    \/ \E c \in Conns : RdSelect(c)
    \/ \E c \in Conns : RdReadErr(c)
    \/ \E c \in Conns : PlSelect(c)

NetNext ==
    \/ \E t \in Tasks, keep \in BOOLEAN : Fault /\ SqTimeout(t, keep)
    \/ \E t \in Tasks : Fault /\ SqOtherErr(t)
    \/ \E t \in Tasks, dialOk \in BOOLEAN : SrvHandle(t, dialOk)
    \/ \E q \in stale, dialOk \in BOOLEAN : SrvHandleStale(q, dialOk)
    \/ \E b \in 1..MaxDials : BackendClose(b)
    \/ \E b \in 1..MaxDials : BackendReset(b)

NextUplink ==
    \/ ClientNext
    \/ NetNext
    \/ \E c \in Conns, id \in UpIds : RdReadData(c, id)

NextDownlink ==
    \/ ClientNext
    \/ NetNext
    \/ \E b \in 1..MaxDials, id \in DownIds : BackendSend(b, id)

SpecUplink == Init /\ [][NextUplink]_vars
SpecDownlink == Init /\ [][NextDownlink]_vars

\* C2: what the server has written to the backend connection of a session is
\* at every moment a prefix of what the uplink reader has read from the local
\* socket
C2_BackendGetsPrefix ==
    \A b \in 1..Len(bk) : IsPrefix(bk[b].written, UpBytes(1))

\* the data query in flight of the uplink reader of c carries subchunk idx[c]
\* of the read in the buffer: its payload decodes to bytes 100*idx+1 .. of
\* the read, between 1 and 100 of them, and idx is below ceil(n/100)
SubchunkInFlight(c) ==
    LET t == << c, "rd" >>
        data == UpData(buf[c])
        n == Len(data)
        first == subChunkSize * idx[c] + 1
        last == Min(subChunkSize * (idx[c] + 1), n)
        d == decodeDNSSafe(ParseName(Fqdn(fqdn[t])).encodedData)
    IN  /\ idx[c] < (n + subChunkSize - 1) \div subChunkSize
        /\ ~d.err
        /\ Len(d.data) \in 1..subChunkSize
        /\ d.data = SubSeq(data, first, last)

\* C22: every data query sendChunk emits for a read of n bytes carries, in
\* its turn, the next 1 to 100 bytes of the read, ceil(n/100) queries in all
C22_SubchunksCarryTheRead ==
    \A c \in Conns : pc[<< c, "rd" >>] = "query" => SubchunkInFlight(c)

\* C24: no backend connection has been written more bytes than the uplink
\* reader has read: no subchunk has been written twice
C24_SubchunkWrittenOnce ==
    \A b \in 1..Len(bk) : Len(bk[b].written) <= Len(UpBytes(1))

\* C8: the payloads the poller has written to the local socket are payloads
\* the server read from the backend, in the order it read them, none twice
C8_DownlinkInOrder ==
    \A c \in Conns :
        /\ IsSubseq(localWritten[c], srvReads[c])
        /\ \A i \in 1..Len(localWritten[c]) :
            localWritten[c][i] \notin {<< >>, EMPTYBytes, CLOSEDBytes}

\* two different chunks, one of them in several TXT strings, have gone from
\* the backend to the local socket
C8_Witness ==
    /\ Len(localWritten[1]) = 2
    /\ localWritten[1][1] # localWritten[1][2]
    /\ \E i \in 1..2 : localWritten[1][i] = DownData(5)
    /\ srvReads[1] = localWritten[1]

(***************************************************************************)
(* The client against a peer that answers anything a DNS server can.      *)
(***************************************************************************)
\* the responses of the peer: a failure RCODE, success with no answer, the
\* text EMPTY, the text of the bytes CLOSED, a text that does not decode,
\* the text of a chunk of data
PeerReplies ==
    { Reply("SERVFAIL", << >>),
      Reply("NOERROR", << >>),
      Reply("NOERROR", << << EMPTY >> >>),
      Reply("NOERROR", << SplitDots(encodeDNSSafe(CLOSEDBytes)) >>),
      Reply("NOERROR", << << << "e", "m" >> >> >>) }
        \cup { Reply("NOERROR", << SplitDots(encodeDNSSafe(DownData(5))) >>) }

\* the responses that carry bytes
DataReplies ==
    {r \in PeerReplies :
        r.rcode = "NOERROR" /\ ParseAnswer(r).err = "" /\ Len(ParseAnswer(r).data) > 0}

\* the exchange of task t returns the response r of the peer
PeerReply(t, r) ==
    /\ pc[t] = "query"
    /\ r \in DataReplies /\ t[2] = "pl" => nDown < MaxDown
    /\ nDown' = IF r \in DataReplies /\ t[2] = "pl" THEN nDown + 1 ELSE nDown
    /\ SqRecv(t, r)
    /\ UNCHANGED << netVars, sessions, bk, nTicks, histS, codecVars, raceVars, seqVars >>

InitClient == InitCodecIdle /\ InitSeqIdle /\ InitSystem(1, 0, MaxReads)

NextClient ==
    \/ ClientNext
    \/ \E c \in Conns, id \in UpIds \ {2} : RdReadData(c, id)
    \/ \E t \in Tasks : SqTimeout(t, FALSE) /\ UNCHANGED faultsLeft
    \/ \E t \in Tasks : SqOtherErr(t) /\ UNCHANGED faultsLeft
    \/ \E t \in Tasks, r \in PeerReplies : PeerReply(t, r)

SpecClient == InitClient /\ [][NextClient]_vars

\* PlSelect(c), as far as pc shows it
PlLeavesSelect(c) ==
    /\ pc[<< c, "pl" >>] = "select"
    /\ \E p \in {"query", "done"} : pc' = [pc EXCEPT ![<< c, "pl" >>] = p]

\* the end of an exchange of task t, as far as pc and attempt show it: the
\* task leaves sendQuery, or the next attempt starts
ExchangeEnds(t) ==
    /\ pc[t] = "query"
    /\ \E p \in {"query", "select", "done", "blocked"}, a \in 0..maxRetries :
        /\ << p, a >> # << pc[t], attempt[t] >>
        /\ pc' = [pc EXCEPT ![t] = p]
        /\ attempt' = [attempt EXCEPT ![t] = a]

\* every goroutine that can take a step takes it in the end, and every
\* exchange ends: c.dnsClient.Exchange has a timeout
FairClient ==
    /\ SpecClient
    /\ \A c \in Conns :
        /\ WF_vars(MainRecv(c))
        /\ WF_vars(RdSelect(c))
        /\ WF_vars(RdReadErr(c))
        /\ WF_pc(PlLeavesSelect(c))
    /\ \A t \in Tasks : WF_<< pc, attempt >>(ExchangeEnds(t))

\* C9: a call of sendQuery makes at most maxRetries exchanges; every exchange
\* before the last ended in a timeout or a failure RCODE; a call whose last
\* exchange ended in another error returns that error; one whose last
\* exchange succeeded returns its answer; one whose last exchange ended in a
\* timeout or a failure RCODE has made maxRetries exchanges and returns the
\* error "max retries exceeded"
C9_SendQueryRetries ==
    /\ \A t \in Tasks : pc[t] = "query" =>
        /\ attempt[t] \in 1..maxRetries
        /\ Len(outs[t]) = attempt[t] - 1
        /\ \A i \in 1..Len(outs[t]) : outs[t][i] \in {"timeout", "rcode"}
    /\ returned # NoRet =>
        LET o == returned.outs
            n == Len(o)
        IN  /\ n \in 1..maxRetries
            /\ \A i \in 1..(n - 1) : o[i] \in {"timeout", "rcode"}
            /\ o[n] = "other" => returned.result = "other"
            /\ o[n] = "success" => returned.result \in {"ok", "decode"}
            /\ o[n] \in {"timeout", "rcode"} =>
                n = maxRetries /\ returned.result = "max retries exceeded"

\* a call has returned after a timeout, a failure RCODE and a timeout
C9_Witness ==
    /\ returned.outs = << "timeout", "rcode", "timeout" >>
    /\ returned.result = "max retries exceeded"

Reported(c) == errChan[c] > 0 \/ mainPc[c] = "ret"
TornDown(c) ==
    /\ lsock[c] = "closed"
    /\ pc[<< c, "rd" >>] = "done"
    /\ pc[<< c, "pl" >>] = "done"

\* C10: no task ever waits to send on the error channel, and once a task has
\* reported an error the local connection is closed and both tasks end
C10_Teardown ==
    /\ [](\A t \in Tasks : pc[t] # "blocked")
    /\ \A c \in Conns : Reported(c) ~> TornDown(c)

\* both tasks have reported an error and ended, the second error left in
\* the channel
C10_Witness == TornDown(1) /\ errChan[1] = 1

(***************************************************************************)
(* SpecCodec: encodeDNSSafe and decodeDNSSafe on a payload.                *)
(***************************************************************************)
CodecBytes == {0, 31, 35, 60, 255}
LongLens == {4, 5, 24, 25, 26, 50, 99, 100}

RECURSIVE SeqsUpTo(_, _)
SeqsUpTo(S, n) ==
    IF n = 0 THEN {<< >>}
    ELSE LET shorter == SeqsUpTo(S, n - 1)
         IN  shorter \cup {Append(q, x) : q \in shorter, x \in S}

CodecInputs ==
    SeqsUpTo(CodecBytes, MaxShort) \cup {Pattern(n, a) : n \in LongLens, a \in {3, 200}}

InitCodec ==
    /\ cIn \in CodecInputs /\ cEnc = << >> /\ cDec = NoDec /\ cPh = "in"
    /\ InitSeqIdle /\ InitSystem(0, 0, 0)

DoEncode ==
    /\ cPh = "in"
    /\ cEnc' = encodeDNSSafe(cIn)
    /\ cPh' = "enc"
    /\ UNCHANGED << cIn, cDec, seqVars, raceVars, clientVars, netVars, srvVars, histS, returned >>

DoDecode ==
    /\ cPh = "enc"
    /\ cDec' = decodeDNSSafe(cEnc)
    /\ cPh' = "dec"
    /\ UNCHANGED << cIn, cEnc, seqVars, raceVars, clientVars, netVars, srvVars, histS, returned >>

NextCodec == DoEncode \/ DoDecode

SpecCodec == InitCodec /\ [][NextCodec]_vars

\* C3: a payload of 1 to 100 bytes comes back from decodeDNSSafe(encodeDNSSafe(P))
\* as it went in, with no error; the empty payload encodes to the word EMPTY,
\* and the word EMPTY decodes to the empty payload
C3_RoundTrip ==
    /\ cPh = "dec" /\ Len(cIn) \in 1..subChunkSize => cDec = [err |-> FALSE, data |-> cIn]
    /\ cPh \in {"enc", "dec"} /\ cIn = << >> => cEnc = EMPTY
    /\ cPh = "dec" /\ cEnc = EMPTY => cDec = [err |-> FALSE, data |-> << >>]

\* bit i (from 0, most significant first) of a byte string, 0 past its end
BitOf(P, i) ==
    IF i >= 8 * Len(P) THEN 0
    ELSE (P[(i \div 8) + 1] \div << 128, 64, 32, 16, 8, 4, 2, 1 >>[(i % 8) + 1]) % 2

\* the k-th (from 0) group of five bits of a byte string, as a number
Quintet(P, k) ==
    16 * BitOf(P, 5 * k) + 8 * BitOf(P, 5 * k + 1) + 4 * BitOf(P, 5 * k + 2)
        + 2 * BitOf(P, 5 * k + 3) + BitOf(P, 5 * k + 4)

\* C15: the labels of encodeDNSSafe(P) are 40 characters long, the last one
\* between 1 and 40, hence none longer than 63; they hold only characters of
\* A-Z2-7; the text without its dots is the unpadded base32 of P; the empty
\* payload gives the word EMPTY
C15_LabelsAreDnsSafe ==
    cPh \in {"enc", "dec"} =>
        IF cIn = << >> THEN cEnc = EMPTY
        ELSE LET dots == {i \in 1..Len(cEnc) : cEnc[i] = DOT}
                 text == SelectSeq(cEnc, LAMBDA ch : ch # DOT)
                 m == (Len(text) - 1) \div maxSafeLabelSize
             IN  /\ Len(text) = (8 * Len(cIn) + 4) \div 5
                 /\ \A k \in 1..Len(text) :
                        text[k] = dnsBase32Alphabet[Quintet(cIn, k - 1) + 1]
                 /\ dots = {(maxSafeLabelSize + 1) * j : j \in 1..m}
                 /\ Len(cEnc) = Len(text) + m
                 /\ maxSafeLabelSize <= maxLabelSize

\* a payload of 26 bytes has been encoded into a label of 40 and one of 2
C15_Witness ==
    /\ cPh = "enc" /\ Len(cIn) = 26
    /\ Len(cEnc) = 43 /\ cEnc[41] = DOT

(***************************************************************************)
(* SpecSeq: the sequence numbers of the uplink reader of one connection,   *)
(* every exchange succeeding.                                              *)
(***************************************************************************)
\* the most subchunks one read gives: a full buffer of maxChunkSize bytes
MaxSubChunks == (maxChunkSize + subChunkSize - 1) \div subChunkSize

Count(k) == IF k < MaxCount THEN k + 1 ELSE k

\* conn.Read returns bytes that make m subchunks; sendChunk sends the first
SeqRead(m) ==
    /\ uM = 0
    /\ uM' = m
    /\ uI' = 0
    /\ uField' = Hex4(SeqField(uSeq, 0))
    /\ uK' = Count(uK)
    /\ UNCHANGED << uSeq, codecVars, raceVars, clientVars, netVars, srvVars, histS, returned >>

\* sendChunk sends the next subchunk of the read
SeqSend ==
    /\ uM > 0
    /\ uI + 1 < uM
    /\ uI' = uI + 1
    /\ uField' = Hex4(SeqField(uSeq, uI + 1))
    /\ uK' = Count(uK)
    /\ UNCHANGED << uSeq, uM, codecVars, raceVars, clientVars, netVars, srvVars, histS, returned >>

\* sendChunk returns and the reader counts: sequence++
SeqNext ==
    /\ uM > 0
    /\ uI + 1 = uM
    /\ uSeq' = NextSequence(uSeq)
    /\ uM' = 0
    /\ uI' = 0
    /\ UNCHANGED << uK, uField, codecVars, raceVars, clientVars, netVars, srvVars, histS, returned >>

InitSeq == InitCodecIdle /\ InitSeqIdle /\ InitSystem(0, 0, 0)

NextSeq ==
    \/ \E m \in 1..MaxSubChunks : SeqRead(m)
    \/ SeqSend
    \/ SeqNext

SpecSeq == InitSeq /\ [][NextSeq]_vars

\* C6: the k-th data query of a connection (k = 0, 1, 2, ...) carries the
\* sequence number k mod 2^16
C6_SequenceIsCount ==
    uK \in 1..(MaxCount - 1) => uField = Hex4((uK - 1) % SeqMod)

\* C7: no data query carries the sequence field ffff
C7_NoDataQueryIsPoll == ~IsPoll(uField)

(***************************************************************************)
(* SpecStart: the accept loop with several local connections, every        *)
(* exchange answered with the text EMPTY.                                  *)
(***************************************************************************)
InitStart == InitCodecIdle /\ InitSeqIdle /\ InitSystem(MaxConns, 0, MaxReads)

NextStart ==
    \/ ClientNext
    \/ \E c \in Conns : RdReadData(c, 1)
    \/ \E t \in Tasks : PeerReply(t, Reply("NOERROR", << << EMPTY >> >>))

SpecStart == InitStart /\ [][NextStart]_vars

\* C1: the queries of one local connection carry one session id, and the
\* queries of two local connections carry different ones
C1_OneSessionIdPerConnection ==
    /\ \A c \in Conns : Cardinality(sidUsed[c]) <= 1
    /\ \A c, d \in Conns : c # d => sidUsed[c] \cap sidUsed[d] = {}

(***************************************************************************)
(* SpecServer: the server and the backend, queries arriving from anywhere. *)
(***************************************************************************)
SrvSids == {generateSessionID(2)}

\* the chunks the backend sends in SpecServer: "hi\n", and the three bytes
\* whose base32 text is the word EMPTY
SrvDownIds == {1, 4}

\* names of queries: polls, data ("HELLO\n", and the three bytes whose text
\* is the word EMPTY), a label that does not decode, a name of three parts,
\* a name of one part
QNames ==
    { Fqdn(PollName(sid)) : sid \in SrvSids }
        \cup { Fqdn(DataName(encodeDNSSafe(UpData(id)), 0, 0, sid)) :
                    id \in {1, 2}, sid \in SrvSids }
        \cup { Fqdn(<< "a", "a", DOT >> \o Hex4(1) \o << DOT >> \o generateSessionID(2)
                    \o << DOT >> \o defaultTLD),
               Fqdn(Hex4(0) \o << DOT >> \o generateSessionID(2) \o << DOT >> \o defaultTLD),
               Fqdn(defaultTLD) }

\* whether handling has written to a backend connection
Wrote(B, B2) ==
    \E b \in 1..Len(B2) : B2[b].written # (IF b <= Len(B) THEN B[b].written ELSE << >>)

\* a query named qname arrives and the server handles it
ServeQuery(qname, dialOk) ==
    /\ DialChoice(qname, dialOk)
    /\ \E h \in {handleDNSRequest(qname, sessions, bk, dialOk)} :
       LET had == h.sid \in DOMAIN sessions
           before == IF had THEN sessions[h.sid].conn ELSE 0
           used == IF before # 0 THEN before
                   ELSE IF Len(h.bk) > Len(bk) THEN Len(h.bk) ELSE 0
           old == IF used \in 1..Len(bk) THEN bk[used].written ELSE << >>
       IN
        /\ Len(h.bk) <= MaxDials
        /\ \A b \in 1..Len(h.bk) : Len(h.bk[b].written) <= MaxWrites * Len(UpData(1))
        /\ sessions' = h.sessions
        /\ bk' = h.bk
        /\ Observe(h, 1)
        /\ lastReq' = [name |-> qname, reply |-> h.reply,
                       wasClosed |-> h.sid \in closedSids,
                       wasLost |-> h.sid \in lostSids,
                       dialed |-> Len(h.bk) > Len(bk),
                       wrote |-> Wrote(bk, h.bk),
                       wasReaped |-> h.sid \in reapedSids,
                       hadEntry |-> had,
                       connBefore |-> before,
                       ageBefore |-> IF had THEN sessions[h.sid].age ELSE 0,
                       ticks |-> nTicks,
                       same |-> h.sessions = sessions /\ h.bk = bk,
                       used |-> used,
                       delta |-> IF used = 0 THEN << >>
                                 ELSE SubSeq(h.bk[used].written, Len(old) + 1,
                                             Len(h.bk[used].written)),
                       read |-> h.read, ended |-> h.ended,
                       readFailed |-> h.readFailed,
                       kind |-> h.kind,
                       dials |-> Len(h.bk) - Len(bk),
                       sessAfter |-> IF h.sid \in DOMAIN h.sessions
                                     THEN h.sessions[h.sid] ELSE NoSession,
                       connAfter |-> IF used # 0 THEN h.bk[used] ELSE NoBackend]
    /\ UNCHANGED << clientVars, stale, nDown, nTicks, codecVars, raceVars, seqVars, returned >>

InitServer == InitCodecIdle /\ InitSeqIdle /\ InitSystem(0, MaxFaults, 0)

NextServer ==
    \/ \E qname \in QNames, dialOk \in BOOLEAN : ServeQuery(qname, dialOk)
    \/ \E b \in 1..MaxDials, id \in SrvDownIds : nDown < MaxSrvDown /\ BackendSend(b, id)
    \/ \E b \in 1..MaxDials : BackendClose(b)
    \/ \E b \in 1..MaxDials : BackendReset(b)
    \/ \E b \in 1..MaxDials : BackendFail(b)
    \/ \E d \in {1, IdleTicks + 1} : ReaperTick(d)

SpecServer == InitServer /\ [][NextServer]_vars

IsPollName(qname) == ParseName(qname).ok /\ IsPoll(ParseName(qname).sequence)
IsDataName(qname) == ParseName(qname).ok /\ ~IsPoll(ParseName(qname).sequence)

\* the answer CLOSED, as the literal word or as the text of its bytes
IsClosedAnswer(r) ==
    /\ r.rcode = "NOERROR"
    /\ Len(r.answer) = 1
    /\ \/ JoinPlain(r.answer[1]) = CLOSED
       \/ decodeDNSSafe(JoinPlain(r.answer[1])) = [err |-> FALSE, data |-> CLOSEDBytes]

\* C4: a poll on a session id on which a poll has met the end of the backend
\* stream, and which the reaper has not passed since, is answered CLOSED and
\* dials nothing
C4_ClosedStaysClosed ==
    IsPollName(lastReq.name) /\ lastReq.wasClosed
        => IsClosedAnswer(lastReq.reply) /\ ~lastReq.dialed

\* C5: a data query on a session id whose backend connection is lost, and
\* which the reaper has not passed since, is answered ServerFailure and
\* writes nothing
C5_LostStaysLost ==
    IsDataName(lastReq.name) /\ lastReq.wasLost
        => lastReq.reply.rcode = "SERVFAIL" /\ ~lastReq.wrote



\* the number of dot-separated parts of a name, its trailing dot set aside
NumParts(qname) ==
    LET n == IF Len(qname) > 0 /\ qname[Len(qname)] = DOT THEN Len(qname) - 1
             ELSE Len(qname)
    IN  Cardinality({i \in 1..n : qname[i] = DOT}) + 1

\* C13: a query whose name has fewer than four parts is answered FormatError,
\* is dispatched neither as a poll nor as data, dials nothing, and leaves the
\* session table and the backend connections as they were
C13_ShortNameRejected ==
    (lastReq.name # << >> /\ NumParts(lastReq.name) < 4) =>
        /\ lastReq.reply = Reply("FORMERR", << >>)
        /\ lastReq.kind = "bad"
        /\ lastReq.dials = 0
        /\ lastReq.same

\* a name of three parts has been answered while the table holds a session
C13_Witness ==
    /\ NumParts(lastReq.name) = 3
    /\ lastReq.reply.rcode = "FORMERR"
    /\ DOMAIN sessions # {}
    /\ \E b \in 1..Len(bk) : bk[b].written # << >>

\* C19: a data query that reached a session: a payload that does not decode
\* is answered FormatError and nothing is written; the empty payload is
\* answered EMPTY and nothing is written; a payload whose write succeeds is
\* written once, refreshes LastActive and is answered EMPTY; a failed write
\* closes the connection, empties the slot and is answered ServerFailure
C19_DataQueryOutcomes ==
    (lastReq.kind = "data" /\ lastReq.used # 0) =>
        LET d == decodeDNSSafe(ParseName(lastReq.name).encodedData)
            broken == lastReq.connAfter.state \in {"reset", "ioerr"}
        IN  /\ d.err =>
                /\ lastReq.reply = Reply("FORMERR", << >>)
                /\ ~lastReq.wrote
            /\ (~d.err /\ d.data = << >>) =>
                /\ lastReq.reply = Reply("NOERROR", << << EMPTY >> >>)
                /\ ~lastReq.wrote
            /\ (~d.err /\ d.data # << >> /\ ~broken) =>
                /\ lastReq.reply = Reply("NOERROR", << << EMPTY >> >>)
                /\ lastReq.delta = d.data
                /\ lastReq.sessAfter.conn = lastReq.used
                /\ lastReq.sessAfter.age = 0
            /\ (~d.err /\ d.data # << >> /\ broken) =>
                /\ lastReq.reply = Reply("SERVFAIL", << >>)
                /\ ~lastReq.wrote
                /\ lastReq.sessAfter.conn = 0
                /\ lastReq.connAfter.srvClosed

\* a write has failed on a connection that had taken an earlier write
C19_Witness ==
    /\ lastReq.kind = "data" /\ lastReq.used # 0
    /\ lastReq.reply.rcode = "SERVFAIL"
    /\ lastReq.connAfter.written = UpData(1)
    /\ lastReq.connAfter.srvClosed
    /\ lastReq.sessAfter.conn = 0

\* the answer EMPTY, as the literal word or as the text of its bytes
IsEmptyAnswer(r) ==
    /\ r.rcode = "NOERROR"
    /\ Len(r.answer) = 1
    /\ \/ JoinPlain(r.answer[1]) = EMPTY
       \/ decodeDNSSafe(JoinPlain(r.answer[1])) = [err |-> FALSE, data |-> EMPTYBytes]

\* the outcomes of a poll other than the reading of bytes
PollOutcomesWithoutData ==
    (lastReq.kind = "poll" /\ lastReq.used # 0) =>
        /\ (lastReq.read = << >> /\ ~lastReq.ended /\ ~lastReq.readFailed) =>
            /\ IsEmptyAnswer(lastReq.reply)
            /\ ~lastReq.sessAfter.closed
            /\ lastReq.sessAfter.conn = lastReq.used
        /\ lastReq.ended =>
            /\ IsClosedAnswer(lastReq.reply)
            /\ lastReq.sessAfter.closed
            /\ lastReq.sessAfter.conn = 0
            /\ lastReq.connAfter.srvClosed
        /\ lastReq.readFailed =>
            /\ lastReq.reply = Reply("SERVFAIL", << >>)
            /\ ~lastReq.sessAfter.closed

\* C20: a poll whose read times out or reads nothing is answered EMPTY and
\* leaves the session open; end of stream or a reset sets the closed flag,
\* closes and empties the connection slot and is answered CLOSED; another
\* read error is answered ServerFailure with the closed flag unset; a read of
\* n > 0 bytes is answered with a text that decodes to exactly those bytes
C20_PollOutcomes ==
    /\ PollOutcomesWithoutData
    /\ (lastReq.kind = "poll" /\ lastReq.read # << >>) =>
        /\ lastReq.reply.rcode = "NOERROR"
        /\ Len(lastReq.reply.answer) = 1
        /\ decodeDNSSafe(JoinPlain(lastReq.reply.answer[1]))
               = [err |-> FALSE, data |-> lastReq.read]

\* C21: the answer to a poll that read nothing is one TXT string, the word
\* EMPTY; the answer to a poll that met the end of the backend is one TXT
\* string, the word CLOSED; the answer to a poll that read bytes is neither word
C21_SentinelsAreLiteral ==
    (lastReq.kind = "poll" /\ lastReq.used # 0 /\ ~lastReq.readFailed) =>
        /\ Len(lastReq.reply.answer) = 1
        /\ (lastReq.read = << >> /\ ~lastReq.ended) => lastReq.reply.answer[1] = << EMPTY >>
        /\ lastReq.ended => lastReq.reply.answer[1] = << CLOSED >>
        /\ lastReq.read # << >> => JoinPlain(lastReq.reply.answer[1]) \notin {EMPTY, CLOSED}

(***************************************************************************)
(* SpecParse: the server answers queries whose names are and are not of    *)
(* the form data.sequence.session.tld.                                      *)
(***************************************************************************)

\* a poll, a poll that carries a payload, a data query, a sequence field that
\* is no hexadecimal number, a sequence field of two digits, names of three,
\* two and one parts
ParseNames ==
    LET sid == generateSessionID(2)
        tail == << DOT >> \o sid \o << DOT >> \o defaultTLD
    IN  { Fqdn(PollName(sid)),
          Fqdn(DataName(encodeDNSSafe(UpData(1)), SeqMod - 1, 0, sid)),
          Fqdn(DataName(encodeDNSSafe(UpData(1)), 0, 0, sid)),
          Fqdn(<< "A", "A", DOT, "z", "z", "z", "z" >> \o tail),
          Fqdn(<< "A", "A", DOT, "0", "1" >> \o tail),
          Fqdn(Hex4(0) \o tail),
          Fqdn(sid \o << DOT >> \o defaultTLD),
          Fqdn(defaultTLD) }

InitParse == InitCodecIdle /\ InitSeqIdle /\ InitSystem(0, 0, 0)

NextParse ==
    \/ \E qname \in ParseNames : ServeQuery(qname, TRUE)
    \/ \E b \in 1..MaxDials, id \in SrvDownIds : nDown < MaxSrvDown /\ BackendSend(b, id)
    \/ \E b \in 1..MaxDials : BackendClose(b)

SpecParse == InitParse /\ [][NextParse]_vars

HexChars == {"0", "1", "2", "3", "4", "5", "6", "7", "8", "9",
             "a", "b", "c", "d", "e", "f", "A", "B", "C", "D", "E", "F"}

\* the positions of the dots of a name, its trailing dot set aside
DotsOf(qname) ==
    LET n == IF Len(qname) > 0 /\ qname[Len(qname)] = DOT THEN Len(qname) - 1
             ELSE Len(qname)
    IN  {i \in 1..n : qname[i] = DOT}

\* at least four non-empty parts, the third from the right four hex digits
WellFormedName(qname) ==
    LET n == IF Len(qname) > 0 /\ qname[Len(qname)] = DOT THEN Len(qname) - 1
             ELSE Len(qname)
        dots == DotsOf(qname)
    IN  /\ Cardinality(dots) >= 3
        /\ n >= 1 /\ qname[1] # DOT /\ qname[n] # DOT
        /\ \A i \in dots : i + 1 \notin dots
        /\ \E i, j \in dots :
            /\ j - i = 5
            /\ Cardinality({k \in dots : k > j}) = 1
            /\ \A k \in (i + 1)..(j - 1) : qname[k] \in HexChars

\* C14: a name is dispatched, as a poll or as data, exactly when it has at
\* least four non-empty parts whose third from the right is four hexadecimal
\* digits; every other name is answered FormatError and dispatched as neither
C14_ParseAcceptsIffWellFormed ==
    lastReq.name # << >> =>
        /\ lastReq.kind \in {"poll", "data"} <=> WellFormedName(lastReq.name)
        /\ ~WellFormedName(lastReq.name) => lastReq.reply = Reply("FORMERR", << >>)

\* the name qname with the sequence field f in the place of its own
WithSequence(qname, f) ==
    LET p == ParseName(qname)
    IN  Fqdn(p.encodedData \o << DOT >> \o f \o << DOT >> \o p.sessionID
                 \o << DOT >> \o p.tld)

\* sequence fields other than ffff: first, next, last but one, not a number,
\* too short
OtherFields ==
    { Hex4(0), Hex4(1), Hex4(SeqMod - 2), << "z", "z", "z", "z" >>, << "0", "1" >> }

\* C23: a data query does to the table and to the backend connections, and
\* is answered, as the same query with any other sequence field than ffff
\* would have been in its place; a query whose sequence field is ffff writes
\* nothing to any backend connection
C23_SequenceOnlySelectsMode ==
    [][lastReq' # lastReq =>
        /\ lastReq'.kind = "data" =>
            \A f \in OtherFields :
                LET h == handleDNSRequest(WithSequence(lastReq'.name, f), sessions, bk, TRUE)
                IN  /\ h.sessions = sessions'
                    /\ h.bk = bk'
                    /\ h.reply = lastReq'.reply
        /\ ParseName(lastReq'.name).sequence = << "f", "f", "f", "f" >> =>
            /\ Len(bk') >= Len(bk)
            /\ \A b \in 1..Len(bk') :
                bk'[b].written = IF b <= Len(bk) THEN bk[b].written ELSE << >>]_vars

\* the same payload has been written twice for the same session, the second
\* time by a query whose sequence field is no number
C23_Witness ==
    /\ ParseName(lastReq.name).sequence = << "z", "z", "z", "z" >>
    /\ lastReq.delta = << 0 >>
    /\ lastReq.connAfter.written = << 0, 0 >>

(***************************************************************************)
(* SpecReaper: the server with two session ids, polled and written to,     *)
(* and the passes of cleanupSessions.                                      *)
(***************************************************************************)
ReapSids == {generateSessionID(2), generateSessionID(3)}

\* polls of both session ids, and a data query ("HELLO\n") of the first
ReapNames ==
    { Fqdn(PollName(sid)) : sid \in ReapSids }
        \cup { Fqdn(DataName(encodeDNSSafe(UpData(1)), 0, 0, generateSessionID(2))) }

\* a pass of cleanupSessions, d ticks after the one before
ReaperRound(d) ==
    /\ nTicks < MaxPasses
    /\ nTicks' = nTicks + 1
    /\ ReaperPass(d)

InitReaper == InitCodecIdle /\ InitSeqIdle /\ InitSystem(0, 0, 0)

NextReaper ==
    \/ \E qname \in ReapNames : ServeQuery(qname, TRUE)
    \/ \E b \in 1..MaxDials : nDown < MaxSrvDown /\ BackendSend(b, 1)
    \/ \E b \in 1..MaxDials : BackendClose(b)
    \/ \E d \in {1, IdleTicks} : ReaperRound(d)

SpecReaper == InitReaper /\ [][NextReaper]_vars

\* C12: no entry idle for more than IdleTicks is left after a pass, and a
\* poll does not count as activity: it leaves the idle time of the entry it
\* finds as it was; the first poll of a session id after its eviction finds
\* no entry, dials one connection, which the new entry holds, and is answered
\* EMPTY
C12_IdleSessionEvicted ==
    /\ \A sid \in DOMAIN sessions : sessions[sid].age <= IdleTicks
    /\ IsPollName(lastReq.name) =>
        /\ (lastReq.connBefore # 0 /\ lastReq.sessAfter # NoSession)
                => lastReq.sessAfter.age = lastReq.ageBefore
        /\ lastReq.wasReaped =>
            /\ ~lastReq.hadEntry
            /\ lastReq.dials = 1
            /\ lastReq.sessAfter = NewSession(lastReq.used)
            /\ lastReq.connAfter = NewBackend
            /\ IsEmptyAnswer(lastReq.reply)

\* a session id whose entry and connection a pass has removed for idleness
\* is polled again, with no pass since
C12_Witness ==
    /\ IsPollName(lastReq.name)
    /\ lastReq.ticks = nTicks
    /\ lastReq.wasReaped
    /\ lastReq.dials = 1
    /\ IsEmptyAnswer(lastReq.reply)
    /\ bk[1].srvClosed /\ bk[1].state = "open" /\ bk[1].written = << >>

C27_DownlinkKeepsSessionAlive ==
    [][(/\ nTicks' # nTicks
        /\ lastReq.kind = "poll" /\ lastReq.read # << >>
        /\ lastReq.ticks = nTicks
        /\ ParseName(lastReq.name).sessionID \in DOMAIN sessions
        /\ ~sessions[ParseName(lastReq.name).sessionID].closed)
       => ParseName(lastReq.name).sessionID \in DOMAIN sessions']_vars

(***************************************************************************)
(* SpecClose: one local connection whose peer is silent, every exchange    *)
(* succeeds, the backend sends and closes, the reaper runs.                *)
(***************************************************************************)
InitClose == InitCodecIdle /\ InitSeqIdle /\ InitSystem(1, 0, 0)

NextClose ==
    \/ StartReset
    \/ StartAccept
    \/ \E c \in Conns : MainRecv(c)
    \/ \E c \in Conns : RdSelect(c)
    \/ \E c \in Conns : RdReadErr(c)
    \/ \E c \in Conns : PlSelect(c)
    \/ \E t \in Tasks : SrvHandle(t, TRUE)
    \/ \E b \in 1..MaxDials, id \in DownIds : BackendSend(b, id)
    \/ \E b \in 1..MaxDials : BackendClose(b)
    \/ \E d \in {1, IdleTicks + 1} : ReaperTick(d)

SpecClose == InitClose /\ [][NextClose]_vars

\* C11: when every exchange succeeds, the local connection is closed only
\* after a poll has met the end-of-stream of the backend, and by then the
\* client has written to the local socket exactly the bytes the server read
\* from the backend
C11_BackendCloseEndsConnection ==
    \A c \in Conns : mainPc[c] = "ret" =>
        /\ Flatten(localWritten[c]) = Flatten(srvReads[c])
        /\ \E b \in 1..Len(bk) : bk[b].state = "eof" /\ bk[b].srvClosed

\* C26: whenever the poller is between two polls, the local socket has been
\* written exactly the byte strings the server read from the backend for
\* this connection, whatever they spell
C26_DownlinkTransparent ==
    \A c \in Conns :
        pc[<< c, "pl" >>] = "select" => localWritten[c] = srvReads[c]

(***************************************************************************)
(* SpecRace: the goroutines of the server that handle queries of one       *)
(* session id at the same time, step by step, with DNSServer.mu and the    *)
(* mutex of every Session. Dials succeed.                                   *)
(***************************************************************************)

\* sync.Mutex.Lock on DNSServer.mu returns only while nobody holds it
TableFreeAlways(t) == TRUE
TableFree(t) == tblMu = 0

\* sync.Mutex.Lock on the mutex of the Session o
SessionFree(o) == heap[o].mu = 0

\* the process has not died of a panic in a handler
Running == \A t \in Handlers : hnd[t].pc # "panic"

RaceRest ==
    UNCHANGED << codecVars, seqVars, clientVars, netVars, sessions, nDown, nTicks,
                 histS >>
        /\ returned' = NoRet

\* handlers that may yet dial for the query they handle
MayDial == {t \in Handlers : hnd[t].pc \in {"getLock", "lookup", "dial"}}

Finish(t, res) == [hnd EXCEPT ![t].pc = "idle", ![t].res = res]

\* a query arrives and handleDNSRequest parses it: a poll or a data query
HandlerStart(t, isPoll) ==
    /\ hnd[t].pc = "idle" /\ hnd[t].left > 0
    /\ Len(bk) + Cardinality(MayDial) < MaxDials
    /\ hnd' = [hnd EXCEPT ![t] = [IdleHandler EXCEPT !.pc = "getLock", !.poll = isPoll,
                                                     !.left = hnd[t].left - 1]]
    /\ UNCHANGED << heap, tbl, tblMu, bk >>
    /\ UNCHANGED reaper
    /\ RaceRest

\* getSession: s.mu.Lock()
GetSessionLock(t) ==
    /\ hnd[t].pc = "getLock"
    /\ TableFree(t)
    /\ tblMu' = t
    /\ hnd' = [hnd EXCEPT ![t].pc = "lookup"]
    /\ UNCHANGED << heap, tbl, bk >>
    /\ UNCHANGED reaper
    /\ RaceRest

\* getSession: the look-up in s.sessions and the test of session.conn
GetSessionLookup(t) ==
    /\ hnd[t].pc = "lookup"
    /\ LET live == tbl # 0 /\ heap[tbl].conn # 0
       IN  hnd' = [hnd EXCEPT ![t].pc = IF live THEN "getUnlock" ELSE "dial",
                              ![t].sess = IF live THEN tbl ELSE 0,
                              ![t].had = IF live THEN tbl ELSE 0,
                              ![t].dials0 = Len(bk)]
    /\ UNCHANGED << heap, tbl, tblMu, bk >>
    /\ UNCHANGED reaper
    /\ RaceRest

\* getSession: a new Session, and reconnect dials its connection
GetSessionDial(t) ==
    /\ hnd[t].pc = "dial"
    /\ Len(bk) < MaxDials
    /\ bk' = Append(bk, NewBackend)
    /\ heap' = Append(heap, [conn |-> Len(bk) + 1, closed |-> FALSE, mu |-> 0])
    /\ hnd' = [hnd EXCEPT ![t].pc = "store", ![t].sess = Len(heap) + 1]
    /\ UNCHANGED << tbl, tblMu >>
    /\ UNCHANGED reaper
    /\ RaceRest

\* getSession: s.sessions[sessionID] = session
GetSessionStore(t) ==
    /\ hnd[t].pc = "store"
    /\ tbl' = hnd[t].sess
    /\ hnd' = [hnd EXCEPT ![t].pc = "getUnlock"]
    /\ UNCHANGED << heap, tblMu, bk >>
    /\ UNCHANGED reaper
    /\ RaceRest

\* getSession returns, were the table mutex left locked
GetSessionReturnsLocked(t) ==
    /\ hnd[t].pc = "getUnlock"
    /\ hnd' = [hnd EXCEPT ![t].pc = IF hnd[t].poll THEN "isClosed" ELSE "writeLock"]
    /\ UNCHANGED << heap, tbl, tblMu, bk >>
    /\ UNCHANGED reaper
    /\ RaceRest

\* getSession returns: the deferred s.mu.Unlock()
GetSessionUnlock(t) ==
    /\ hnd[t].pc = "getUnlock"
    /\ tblMu' = 0
    /\ hnd' = [hnd EXCEPT ![t].pc = IF hnd[t].poll THEN "isClosed" ELSE "writeLock"]
    /\ UNCHANGED << heap, tbl, bk >>
    /\ UNCHANGED reaper
    /\ RaceRest

\* handlePoll: session.IsClosed(), under the mutex of the session
PollIsClosed(t) ==
    /\ hnd[t].pc = "isClosed"
    /\ SessionFree(hnd[t].sess)
    /\ hnd' = IF heap[hnd[t].sess].closed THEN Finish(t, "CLOSED")
              ELSE [hnd EXCEPT ![t].pc = "deadline"]
    /\ UNCHANGED << heap, tbl, tblMu, bk >>
    /\ UNCHANGED reaper
    /\ RaceRest

\* handlePoll: session.conn.SetReadDeadline, no mutex held; a nil conn panics
PollSetDeadline(t) ==
    /\ hnd[t].pc = "deadline"
    /\ hnd' = [hnd EXCEPT ![t].pc = IF heap[hnd[t].sess].conn = 0 THEN "panic" ELSE "read"]
    /\ UNCHANGED << heap, tbl, tblMu, bk >>
    /\ UNCHANGED reaper
    /\ RaceRest

\* handlePoll: session.conn.Read begins, no mutex held; a nil conn panics
PollReadBegin(t) ==
    /\ hnd[t].pc = "read"
    /\ hnd' = [hnd EXCEPT ![t].pc = IF heap[hnd[t].sess].conn = 0 THEN "panic" ELSE "reading",
                          ![t].conn = heap[hnd[t].sess].conn]
    /\ UNCHANGED << heap, tbl, tblMu, bk >>
    /\ UNCHANGED reaper
    /\ RaceRest

\* handlePoll: the Read returns, after 50 ms at most
PollReadEnd(t) ==
    /\ hnd[t].pc = "reading"
    /\ LET b == hnd[t].conn
       IN  hnd' = IF bk[b].srvClosed \/ bk[b].state = "ioerr" THEN Finish(t, "SERVFAIL")
                  ELSE IF bk[b].state \in {"eof", "reset"}
                  THEN [hnd EXCEPT ![t].pc = "closeLock"]
                  ELSE Finish(t, "EMPTY")
    /\ UNCHANGED << heap, tbl, tblMu, bk >>
    /\ UNCHANGED reaper
    /\ RaceRest

\* Session.Close: s.mu.Lock()
CloseLock(t) ==
    /\ hnd[t].pc = "closeLock"
    /\ SessionFree(hnd[t].sess)
    /\ heap' = [heap EXCEPT ![hnd[t].sess].mu = t]
    /\ hnd' = [hnd EXCEPT ![t].pc = "closing"]
    /\ UNCHANGED << tbl, tblMu, bk >>
    /\ UNCHANGED reaper
    /\ RaceRest

\* Session.Close: the body and the deferred unlock
CloseUnlock(t) ==
    /\ hnd[t].pc = "closing"
    /\ LET o == hnd[t].sess
       IN  /\ heap' = [heap EXCEPT ![o] = IF heap[o].closed THEN [heap[o] EXCEPT !.mu = 0]
                                          ELSE [conn |-> 0, closed |-> TRUE, mu |-> 0]]
           /\ bk' = IF heap[o].closed THEN bk ELSE CloseConn(bk, heap[o].conn)
    /\ hnd' = Finish(t, "CLOSED")
    /\ UNCHANGED << tbl, tblMu >>
    /\ UNCHANGED reaper
    /\ RaceRest

\* Session.Write: s.mu.Lock()
WriteLock(t) ==
    /\ hnd[t].pc = "writeLock"
    /\ SessionFree(hnd[t].sess)
    /\ heap' = [heap EXCEPT ![hnd[t].sess].mu = t]
    /\ hnd' = [hnd EXCEPT ![t].pc = "writing"]
    /\ UNCHANGED << tbl, tblMu, bk >>
    /\ UNCHANGED reaper
    /\ RaceRest

\* Session.Write: the write on the connection and the deferred unlock
WriteUnlock(t) ==
    /\ hnd[t].pc = "writing"
    /\ LET o == hnd[t].sess
           b == heap[o].conn
           failed == b # 0 /\ (bk[b].srvClosed \/ bk[b].state \in {"reset", "ioerr"})
       IN  /\ heap' = [heap EXCEPT ![o].mu = 0, ![o].conn = IF failed THEN 0 ELSE b]
           /\ bk' = IF failed THEN CloseConn(bk, b) ELSE bk
           /\ hnd' = Finish(t, IF b = 0 \/ failed THEN "SERVFAIL" ELSE "EMPTY")
    /\ UNCHANGED << tbl, tblMu >>
    /\ UNCHANGED reaper
    /\ RaceRest

\* cleanupSessions: the ticker fires
ReaperTickFires ==
    /\ reaper.pc = "idle" /\ reaper.left > 0
    /\ reaper' = [pc |-> "lock", left |-> reaper.left - 1]
    /\ UNCHANGED << heap, tbl, tblMu, hnd, bk >>
    /\ RaceRest

\* cleanupSessions: s.mu.Lock()
ReaperLock ==
    /\ reaper.pc = "lock"
    /\ TableFree(ReaperId)
    /\ tblMu' = ReaperId
    /\ reaper' = [reaper EXCEPT !.pc = "scan"]
    /\ UNCHANGED << heap, tbl, hnd, bk >>
    /\ RaceRest

\* cleanupSessions: session.IsClosed(), under the mutex of the session, and
\* the test of lastActive; the table holds the entry of one session id at most
ReaperScan(idle) ==
    /\ reaper.pc = "scan"
    /\ tbl # 0 => SessionFree(tbl)
    /\ reaper' = [reaper EXCEPT !.pc = IF tbl # 0 /\ (heap[tbl].closed \/ idle)
                                       THEN "closeLock" ELSE "unlock"]
    /\ UNCHANGED << heap, tbl, tblMu, hnd, bk >>
    /\ RaceRest

\* cleanupSessions: session.Close() takes the mutex of the session
ReaperCloseLock ==
    /\ reaper.pc = "closeLock"
    /\ SessionFree(tbl)
    /\ heap' = [heap EXCEPT ![tbl].mu = ReaperId]
    /\ reaper' = [reaper EXCEPT !.pc = "closing"]
    /\ UNCHANGED << tbl, tblMu, hnd, bk >>
    /\ RaceRest

\* cleanupSessions: the body of session.Close(), its unlock, and the delete
ReaperCloseUnlock ==
    /\ reaper.pc = "closing"
    /\ heap' = [heap EXCEPT ![tbl] = IF heap[tbl].closed THEN [heap[tbl] EXCEPT !.mu = 0]
                                       ELSE [conn |-> 0, closed |-> TRUE, mu |-> 0]]
    /\ bk' = IF heap[tbl].closed THEN bk ELSE CloseConn(bk, heap[tbl].conn)
    /\ tbl' = 0
    /\ reaper' = [reaper EXCEPT !.pc = "unlock"]
    /\ UNCHANGED << tblMu, hnd >>
    /\ RaceRest

\* cleanupSessions: s.mu.Unlock()
ReaperUnlock ==
    /\ reaper.pc = "unlock"
    /\ tblMu' = 0
    /\ reaper' = [reaper EXCEPT !.pc = "idle"]
    /\ UNCHANGED << heap, tbl, hnd, bk >>
    /\ RaceRest

InitRace == InitCodecIdle /\ InitSeqIdle /\ InitSystem(0, 0, 0)

NextRace ==
    \/ \E t \in Handlers, isPoll \in BOOLEAN : Running /\ HandlerStart(t, isPoll)
    \/ \E t \in Handlers : Running /\ GetSessionLock(t)
    \/ \E t \in Handlers : Running /\ GetSessionLookup(t)
    \/ \E t \in Handlers : Running /\ GetSessionDial(t)
    \/ \E t \in Handlers : Running /\ GetSessionStore(t)
    \/ \E t \in Handlers : Running /\ GetSessionUnlock(t)
    \/ \E t \in Handlers : Running /\ PollIsClosed(t)
    \/ \E t \in Handlers : Running /\ PollSetDeadline(t)
    \/ \E t \in Handlers : Running /\ PollReadBegin(t)
    \/ \E t \in Handlers : Running /\ PollReadEnd(t)
    \/ \E t \in Handlers : Running /\ CloseLock(t)
    \/ \E t \in Handlers : Running /\ CloseUnlock(t)
    \/ \E t \in Handlers : Running /\ WriteLock(t)
    \/ \E t \in Handlers : Running /\ WriteUnlock(t)
    \/ Running /\ ReaperTickFires
    \/ Running /\ ReaperLock
    \/ \E idle \in BOOLEAN : Running /\ ReaperScan(idle)
    \/ Running /\ ReaperCloseLock
    \/ Running /\ ReaperCloseUnlock
    \/ Running /\ ReaperUnlock
    \/ \E b \in 1..MaxDials : BackendClose(b)
    \/ \E b \in 1..MaxDials : BackendReset(b)

SpecRace == InitRace /\ [][NextRace]_vars

\* the steps of the handler t after the arrival of its query, and the steps
\* of cleanupSessions after the ticker has fired
HandlerStep(t) ==
    Running /\ (\/ GetSessionLock(t) \/ GetSessionLookup(t) \/ GetSessionDial(t)
                \/ GetSessionStore(t) \/ GetSessionUnlock(t)
                \/ PollIsClosed(t) \/ PollSetDeadline(t) \/ PollReadBegin(t)
                \/ PollReadEnd(t) \/ CloseLock(t) \/ CloseUnlock(t)
                \/ WriteLock(t) \/ WriteUnlock(t))

ReaperStep ==
    Running /\ (\/ ReaperLock \/ (\E idle \in BOOLEAN : ReaperScan(idle))
                \/ ReaperCloseLock \/ ReaperCloseUnlock \/ ReaperUnlock)

\* every goroutine that can take a step takes one: the scheduler runs every
\* runnable goroutine, a blocked Lock returns once the mutex is free for
\* good, and the backend I/O of a handler returns within its deadline
FairRace ==
    /\ SpecRace
    /\ \A t \in Handlers : WF_vars(HandlerStep(t))
    /\ WF_vars(ReaperStep)

\* where a handler, and the reaper, wait for a mutex
HandlerWaits == {"getLock", "isClosed", "writeLock", "closeLock"}
ReaperWaits == {"lock", "scan", "closeLock"}

\* who waits for the table mutex holds no session mutex, and the reaper
\* holds a session mutex only inside the table mutex
LockOrder ==
    /\ \A t \in Handlers :
        hnd[t].pc = "getLock" => \A o \in 1..Len(heap) : heap[o].mu # t
    /\ reaper.pc = "lock" => \A o \in 1..Len(heap) : heap[o].mu # ReaperId
    /\ \A o \in 1..Len(heap) : heap[o].mu = ReaperId => tblMu = ReaperId
    /\ \A t \in Handlers : tblMu = t => \A o \in 1..Len(heap) : heap[o].mu # t

\* C28: the lock order holds in every state, and no handler and no reaper
\* waits for a mutex for ever, as long as the process lives
C28_NoDeadlock ==
    /\ []LockOrder
    /\ \A t \in Handlers : []<>(hnd[t].pc \notin HandlerWaits \/ ~Running)
    /\ []<>(reaper.pc \notin ReaperWaits \/ ~Running)

\* the reaper, inside the table mutex, waits for a session mutex that a
\* handler holds, while the other handler waits for the table mutex
C28_Witness ==
    /\ reaper.pc = "scan" /\ tbl # 0 /\ heap[tbl].mu \in Handlers
    /\ \E t \in Handlers : hnd[t].pc = "getLock"

\* C16: while a poll handler is inside its read on the connection of a
\* session, no other handler is inside a write or a close on that session
C16_PollReadNeverOverlaps ==
    \A t, u \in Handlers :
        (t # u /\ hnd[t].pc = "reading" /\ hnd[u].sess = hnd[t].sess)
            => hnd[u].pc \notin {"writing", "closing"}

C25_PollNeverUsesNil ==
    \A t \in Handlers : hnd[t].pc # "panic"

\* no handler is inside the critical section of getSession
OutsideGetSession ==
    \A t \in Handlers : hnd[t].pc \notin {"lookup", "dial", "store", "getUnlock"}

\* C29: outside the critical section of getSession, every backend connection
\* the server has not closed is the connection of the Session the table
\* holds and of no other Session, and no Session outside the table holds a
\* connection
C29_NoConnectionLeaked ==
    OutsideGetSession =>
        /\ \A b \in 1..Len(bk) :
            ~bk[b].srvClosed =>
                /\ tbl # 0 /\ heap[tbl].conn = b
                /\ \A o \in 1..Len(heap) : heap[o].conn = b => o = tbl
        /\ \A o \in 1..Len(heap) : heap[o].conn # 0 => o = tbl

\* after the reaper's pass and a replacement of the Session of the table:
\* the first connection is closed and in no slot, the second is in the table
C29_Witness ==
    /\ OutsideGetSession /\ reaper = [pc |-> "idle", left |-> 0]
    /\ Len(heap) = 2 /\ tbl = 2
    /\ heap[1].conn = 0 /\ heap[1].closed /\ bk[1].srvClosed
    /\ heap[2].conn = 2 /\ ~bk[2].srvClosed

=============================================================================
